---- MODULE Spec2Model ----
(***************************************************************************)
(* The agent leader lock service: the in-memory lock store that the       *)
(* leader serves on its socket and the client of it                       *)
(* (agent/leader_socket.go), and the lock subcommands built on the        *)
(* client: lock acquire, lock release, lock do (clicommand/lock_do.go)    *)
(* and lock done (clicommand/lock_done.go).                               *)
(*                                                                         *)
(* The server runs one handler goroutine per request, and every process   *)
(* has at most one request in flight.  A handler's steps are the mutex    *)
(* acquisition, the comparison, the write and the return of load / cas;   *)
(* a subcommand's steps are its client calls and what it does with each   *)
(* result.  The agents race to listen on the leader socket; the one that  *)
(* binds it serves the store until it shuts down.  In the specifications  *)
(* of the lock subcommands the leader is up throughout.                   *)
(***************************************************************************)
EXTENDS Integers, FiniteSets, Sequences, TLC

\* ------------------------------------------------------------------ bounds

\* Number of client processes (each with its own connection to the socket).
NumProcs == 2

Procs == 1..NumProcs

\* Number of agent processes that try to become the leader.
NumAgents == 2

Agents == 1..NumAgents

\* The lock keys of the store.
Keys == {"llama", "build-lock"}

\* The tokens callers of the bare client swap in the CompareAndSwap race.
RaceTokens == {"", "1", "2"}

\* ------------------------------------------------------- program constants

StatusOK == 200
StatusNoContent == 204
StatusNotModified == 304
StatusBadRequest == 400
StatusNotFound == 404
StatusMethodNotAllowed == 405

MethodGet == "GET"
MethodPatch == "PATCH"

\* The URL path of the lock API.
LockPath == "/api/leader/v0/lock"

\* The two sources of lockDoneAction.  clicommand/lock_done.go swaps
\* "doing" -> "done"; the other copy of the file swaps "1" -> "2".
Builds == {"lock_done.go", "part_003"}

\* ------------------------------------------------------------------- state

VARIABLES
    locks,   \* LeaderServer.locks: a Go map, a function on the keys written
    mu,      \* LeaderServer.mu: 0 when free, else the process whose handler holds it
    conn,    \* per process: the request in flight and its handler's position
    cmd,     \* per process: the call or subcommand it runs, with its arguments
    pc,      \* per process: position in the subcommand
    ret,     \* per process: what a bare client call returned
    exit,    \* per process: exit code of the last subcommand (-1 while running)
    stdout,  \* per process: the last line written to c.App.Writer
    stderr,  \* per process: the diagnostic written to c.App.ErrWriter
    build,   \* which source of lockDoneAction is compiled in
    started, \* per process: how many subcommands its script has started
    sock,    \* the agent whose listener is bound to LeaderSocketPath, 0 when none
    srv      \* per agent: what its NewLeaderServer call came to

vars == <<locks, mu, conn, cmd, pc, ret, exit, stdout, stderr, build, started,
          sock, srv>>

\* What a handler goroutine of the server never touches.
cliVars == <<cmd, pc, ret, exit, stdout, stderr, build, started, sock, srv>>

\* -------------------------------------------------------------- the store

\* s.locks[key]: a missing key reads as the zero value "".
MapGet(m, key) == IF key \in DOMAIN m THEN m[key] ELSE ""

\* A cas that keeps the map as it is where cas assigns s.locks[key] = new.
MapSetKeep(m, key, new) == m

\* A cas that replaces the whole map by the one entry it writes.
MapSetAlone(m, key, new) == [k \in {key} |-> new]

\* s.locks[key] = new: creates the entry when it is missing.
MapSet(m, key, new) ==
    [k \in DOMAIN m \cup {key} |-> IF k = key THEN new ELSE m[k]]

\* sync.Mutex.Lock without the wait: two handlers may hold it together.
muLockNoWait(p) == mu' = p

\* s.mu.Lock(): blocks until the mutex is free.
muLock(p) == mu = 0 /\ mu' = p

\* defer s.mu.Unlock()
muUnlock(p) == mu' = 0

\* ------------------------------------------------------------ the requests

NoQuery == [n \in {} |-> ""]

NoConn ==
    [stage |-> "none", method |-> "", path |-> "", q |-> NoQuery,
     status |-> 0, body |-> ""]

\* url.Values.Encode of the parameters set with q.Set: a function from the
\* parameter names to their values.
GetQuery(key) == [n \in {"key"} |-> key]

CasQuery(key, old, new) ==
    [n \in {"key", "old", "new"} |->
        IF n = "key" THEN key ELSE IF n = "old" THEN old ELSE new]

\* r.FormValue(name): the value of the parameter, "" when it is absent.
FormValue(q, name) == IF name \in DOMAIN q THEN q[name] ELSE ""

\* A request as it arrives at the socket.
RawRequest(method, path, q) ==
    [stage |-> "sent", method |-> method, path |-> path, q |-> q,
     status |-> 0, body |-> ""]

\* The requests of the LeaderClient all go to http://agent/api/leader/v0/lock.
Request(method, q) == RawRequest(method, LockPath, q)

Respond(c, status, body) ==
    [c EXCEPT !.stage = "responded", !.status = status, !.body = body]

\* ------------------------------------------------------------- the client

\* LeaderClient.Get taking an empty body for a failure.
GetResultEmptyErr(c) ==
    IF c.status = StatusOK /\ c.body # ""
    THEN [value |-> c.body, done |-> FALSE, err |-> FALSE]
    ELSE [value |-> "", done |-> FALSE, err |-> TRUE]

\* LeaderClient.Get: the body on 200, an error on any other status.
GetResult(c) ==
    IF c.status = StatusOK
    THEN [value |-> c.body, done |-> FALSE, err |-> FALSE]
    ELSE [value |-> "", done |-> FALSE, err |-> TRUE]

\* LeaderClient.CompareAndSwap with the switch reading 304 as an error.
CompareAndSwapResult304Err(c) ==
    IF c.status = StatusNoContent
    THEN [value |-> "", done |-> TRUE, err |-> FALSE]
    ELSE [value |-> "", done |-> FALSE, err |-> TRUE]

\* LeaderClient.CompareAndSwap with a default case that returns (false, nil).
CompareAndSwapResultNoErr(c) ==
    IF c.status = StatusNoContent
    THEN [value |-> "", done |-> TRUE, err |-> FALSE]
    ELSE [value |-> "", done |-> FALSE, err |-> FALSE]

\* LeaderClient.CompareAndSwap: 204 -> (true, nil), 304 -> (false, nil),
\* anything else -> (false, error).
CompareAndSwapResult(c) ==
    IF c.status = StatusNoContent
    THEN [value |-> "", done |-> TRUE, err |-> FALSE]
    ELSE IF c.status = StatusNotModified
         THEN [value |-> "", done |-> FALSE, err |-> FALSE]
         ELSE [value |-> "", done |-> FALSE, err |-> TRUE]

NoRet == [value |-> "", done |-> FALSE, err |-> FALSE]

\* ------------------------------------------------------------- the server

\* The socket has a listener: a server accepts the connections to it.
Listening == sock # 0

\* ServeHTTP without the check of the key parameter.
RejectStatusNoKeyCheck(c) ==
    IF c.path # LockPath THEN StatusNotFound
    ELSE IF c.method \notin {MethodGet, MethodPatch} THEN StatusMethodNotAllowed
    ELSE 0

\* ServeHTTP's answer to a request it does not pass on to load / cas: another
\* path, an unsupported method, or a GET / PATCH whose key parameter is empty.
RejectStatus(c) ==
    IF c.path # LockPath THEN StatusNotFound
    ELSE IF c.method \notin {MethodGet, MethodPatch} THEN StatusMethodNotAllowed
    ELSE IF FormValue(c.q, "key") = "" THEN StatusBadRequest
    ELSE 0

\* ServeHTTP, the http.Error branches.
ServeHTTPError(p) ==
    /\ Listening
    /\ conn[p].stage = "sent"
    /\ RejectStatus(conn[p]) # 0
    /\ conn' = [conn EXCEPT ![p] = Respond(@, RejectStatus(@), "error")]
    /\ UNCHANGED <<locks, mu>>
    /\ UNCHANGED cliVars

\* ServeHTTP case http.MethodGet, into load: s.mu.Lock().
loadLock(p) ==
    /\ Listening
    /\ conn[p].stage = "sent"
    /\ conn[p].method = MethodGet
    /\ RejectStatus(conn[p]) = 0
    /\ muLock(p)
    /\ conn' = [conn EXCEPT ![p].stage = "load_locked"]
    /\ UNCHANGED locks
    /\ UNCHANGED cliVars

\* load: return s.locks[key], the deferred Unlock, and w.Write of the value.
loadReturn(p) ==
    /\ conn[p].stage = "load_locked"
    /\ muUnlock(p)
    /\ conn' = [conn EXCEPT ![p] =
                  Respond(@, StatusOK, MapGet(locks, FormValue(@.q, "key")))]
    /\ UNCHANGED locks
    /\ UNCHANGED cliVars

\* ServeHTTP case http.MethodPatch, into cas: s.mu.Lock().
casLock(p) ==
    /\ Listening
    /\ conn[p].stage = "sent"
    /\ conn[p].method = MethodPatch
    /\ RejectStatus(conn[p]) = 0
    /\ muLock(p)
    /\ conn' = [conn EXCEPT ![p].stage = "cas_locked"]
    /\ UNCHANGED locks
    /\ UNCHANGED cliVars

\* cas: if s.locks[key] == old
casCompare(p) ==
    /\ conn[p].stage = "cas_locked"
    /\ conn' = [conn EXCEPT ![p].stage =
                  IF MapGet(locks, FormValue(conn[p].q, "key")) = FormValue(conn[p].q, "old")
                  THEN "cas_equal" ELSE "cas_differ"]
    /\ UNCHANGED <<locks, mu>>
    /\ UNCHANGED cliVars

\* cas: s.locks[key] = new
casStore(p) ==
    /\ conn[p].stage = "cas_equal"
    /\ locks' = MapSet(locks, FormValue(conn[p].q, "key"), FormValue(conn[p].q, "new"))
    /\ conn' = [conn EXCEPT ![p].stage = "cas_stored"]
    /\ UNCHANGED mu
    /\ UNCHANGED cliVars

\* cas: return true / return false, the deferred Unlock, and ServeHTTP's
\* WriteHeader: 204 when cas reported true, 304 when it reported false.
casReturn(p) ==
    /\ conn[p].stage \in {"cas_stored", "cas_differ"}
    /\ muUnlock(p)
    /\ conn' = [conn EXCEPT ![p] =
                  Respond(@, IF @.stage = "cas_stored" THEN StatusNoContent
                             ELSE StatusNotModified, "")]
    /\ UNCHANGED locks
    /\ UNCHANGED cliVars

\* ------------------------------------------------- bare client callers

NoCmd == [name |-> "", key |-> "", old |-> "", new |-> ""]

\* c.Get(key) called directly on a LeaderClient: the request goes out.
GetCall(p, key) ==
    /\ pc[p] = "idle"
    /\ cmd' = [cmd EXCEPT ![p] = [name |-> "Get", key |-> key, old |-> "", new |-> ""]]
    /\ conn' = [conn EXCEPT ![p] = Request(MethodGet, GetQuery(key))]
    /\ pc' = [pc EXCEPT ![p] = "await"]
    /\ UNCHANGED <<locks, mu, ret, exit, stdout, stderr, build, started, sock, srv>>

\* c.CompareAndSwap(key, old, new) called directly: the request goes out.
CompareAndSwapCall(p, key, old, new) ==
    /\ pc[p] = "idle"
    /\ cmd' = [cmd EXCEPT ![p] =
                 [name |-> "CompareAndSwap", key |-> key, old |-> old, new |-> new]]
    /\ conn' = [conn EXCEPT ![p] = Request(MethodPatch, CasQuery(key, old, new))]
    /\ pc' = [pc EXCEPT ![p] = "await"]
    /\ UNCHANGED <<locks, mu, ret, exit, stdout, stderr, build, started, sock, srv>>

\* The bare call returns its (value / replaced, error) to the caller.
ClientReturn(p) ==
    /\ pc[p] = "await"
    /\ cmd[p].name \in {"Get", "CompareAndSwap"}
    /\ conn[p].stage = "responded"
    /\ ret' = [ret EXCEPT ![p] =
                 IF cmd[p].name = "Get" THEN GetResult(conn[p])
                 ELSE CompareAndSwapResult(conn[p])]
    /\ conn' = [conn EXCEPT ![p] = NoConn]
    /\ pc' = [pc EXCEPT ![p] = "returned"]
    /\ UNCHANGED <<locks, mu, cmd, exit, stdout, stderr, build, started, sock, srv>>

\* ------------------------------------------------------ the lock subcommands

\* A subcommand is started with its key argument: NewLeaderClient finds the
\* socket of the running server, and the process is at its first client call.
\* (The caller's script says what becomes of `started`.)
Start(p, name, key) ==
    /\ pc[p] \in {"idle", "exited"}
    /\ cmd' = [cmd EXCEPT ![p] = [name |-> name, key |-> key, old |-> "", new |-> ""]]
    /\ pc' = [pc EXCEPT ![p] = "call"]
    /\ exit' = [exit EXCEPT ![p] = -1]
    /\ stdout' = [stdout EXCEPT ![p] = ""]
    /\ stderr' = [stderr EXCEPT ![p] = ""]
    /\ UNCHANGED <<locks, mu, conn, ret, build, sock, srv>>

\* os.Exit(code) / return nil, with what was written to the two writers.
Exit(p, code, out, err) ==
    /\ pc' = [pc EXCEPT ![p] = "exited"]
    /\ exit' = [exit EXCEPT ![p] = code]
    /\ stdout' = [stdout EXCEPT ![p] = out]
    /\ stderr' = [stderr EXCEPT ![p] = err]

\* The process goes on running, at position `at`.
Goto(p, at) ==
    /\ pc' = [pc EXCEPT ![p] = at]
    /\ UNCHANGED <<exit, stdout, stderr>>

Responded(p) == conn[p].stage = "responded"

\* The tokens of the exclusive lock (lock_acquire.go, lock_release.go).
AcquireOld == ""

\* An acquire that writes a token of its own, which lock do does not know.
AcquireNewOwn == "locked"

AcquireNew == "1"

\* A release that compares with a token of its own instead of acquire's.
ReleaseOldOwn == "held"

ReleaseOld == "1"

\* A release that writes a token of its own instead of the empty string.
ReleaseNewZero == "0"

ReleaseNew == ""

\* The tokens of lock do (lock_do.go).
DoNew == ""
DoDoing == "1"
DoDone == "2"

\* The tokens of lock done, in each source of lockDoneAction.
DoneOld(b) == IF b = "lock_done.go" THEN "doing" ELSE "1"
\* A lock done that puts the key back to the empty string.
DoneNewReset(b) == ""

DoneNew(b) == IF b = "lock_done.go" THEN "done" ELSE "2"

\* lockAcquireAction: cli.CompareAndSwap(key, "", "1"), at the top of the
\* loop or after the sleep.
lockAcquireCall(p) ==
    /\ cmd[p].name = "acquire"
    /\ pc[p] \in {"call", "sleep"}
    /\ conn' = [conn EXCEPT ![p] =
                  Request(MethodPatch, CasQuery(cmd[p].key, AcquireOld, AcquireNew))]
    /\ Goto(p, "await")
    /\ UNCHANGED <<locks, mu, cmd, ret, build, started, sock, srv>>

\* lockAcquireAction returning as soon as the call made no error, whether
\* or not the swap was done.
lockAcquireResultNoCheck(p) ==
    /\ cmd[p].name = "acquire"
    /\ pc[p] = "await"
    /\ Responded(p)
    /\ conn' = [conn EXCEPT ![p] = NoConn]
    /\ IF CompareAndSwapResult(conn[p]).err
       THEN Exit(p, 1, "", "Error performing compare-and-swap")
       ELSE Exit(p, 0, "", "")
    /\ UNCHANGED <<locks, mu, cmd, ret, build, started, sock, srv>>

\* lockAcquireAction giving up when the swap was not done, the way
\* lockReleaseAction does, instead of sleeping and trying again.
lockAcquireResultGiveUp(p) ==
    /\ cmd[p].name = "acquire"
    /\ pc[p] = "await"
    /\ Responded(p)
    /\ conn' = [conn EXCEPT ![p] = NoConn]
    /\ LET r == CompareAndSwapResult(conn[p]) IN
         IF r.err THEN Exit(p, 1, "", "Error performing compare-and-swap")
         ELSE IF r.done THEN Exit(p, 0, "", "")
         ELSE Exit(p, 1, "", "Lock in invalid state to acquire")
    /\ UNCHANGED <<locks, mu, cmd, ret, build, started, sock, srv>>

\* lockAcquireAction: an error exits 1; done returns nil; otherwise
\* time.Sleep(100 * time.Millisecond) and round the loop.
lockAcquireResult(p) ==
    /\ cmd[p].name = "acquire"
    /\ pc[p] = "await"
    /\ Responded(p)
    /\ conn' = [conn EXCEPT ![p] = NoConn]
    /\ LET r == CompareAndSwapResult(conn[p]) IN
         IF r.err THEN Exit(p, 1, "", "Error performing compare-and-swap")
         ELSE IF r.done THEN Exit(p, 0, "", "")
         ELSE Goto(p, "sleep")
    /\ UNCHANGED <<locks, mu, cmd, ret, build, started, sock, srv>>

\* lockReleaseAction: cli.CompareAndSwap(key, "1", "").
lockReleaseCall(p) ==
    /\ cmd[p].name = "release"
    /\ pc[p] = "call"
    /\ conn' = [conn EXCEPT ![p] =
                  Request(MethodPatch, CasQuery(cmd[p].key, ReleaseOld, ReleaseNew))]
    /\ Goto(p, "await")
    /\ UNCHANGED <<locks, mu, cmd, ret, build, started, sock, srv>>

\* lockReleaseAction without the check of done: it returns nil whenever the
\* call made no error.
lockReleaseResultNoCheck(p) ==
    /\ cmd[p].name = "release"
    /\ pc[p] = "await"
    /\ Responded(p)
    /\ conn' = [conn EXCEPT ![p] = NoConn]
    /\ IF CompareAndSwapResult(conn[p]).err
       THEN Exit(p, 1, "", "Error performing compare-and-swap")
       ELSE Exit(p, 0, "", "")
    /\ UNCHANGED <<locks, mu, cmd, ret, build, started, sock, srv>>

\* lockReleaseAction: an error exits 1; !done is the invalid state, exit 1;
\* otherwise return nil.
lockReleaseResult(p) ==
    /\ cmd[p].name = "release"
    /\ pc[p] = "await"
    /\ Responded(p)
    /\ conn' = [conn EXCEPT ![p] = NoConn]
    /\ LET r == CompareAndSwapResult(conn[p]) IN
         IF r.err THEN Exit(p, 1, "", "Error performing compare-and-swap")
         ELSE IF ~r.done THEN Exit(p, 1, "", "Lock in invalid state to release")
         ELSE Exit(p, 0, "", "")
    /\ UNCHANGED <<locks, mu, cmd, ret, build, started, sock, srv>>

\* lockDoAction: state, err := cli.Get(key), at the top of the loop or
\* after the sleep.
lockDoGet(p) ==
    /\ cmd[p].name = "do"
    /\ pc[p] \in {"call", "sleep"}
    /\ conn' = [conn EXCEPT ![p] = Request(MethodGet, GetQuery(cmd[p].key))]
    /\ Goto(p, "await_get")
    /\ UNCHANGED <<locks, mu, cmd, ret, build, started, sock, srv>>

\* The switch on state with case "1" falling into case "2": a waiter is
\* let through while the work is still in progress.
DoCaseFallThrough(state) ==
    IF state = DoNew THEN "swap"
    ELSE IF state \in {DoDoing, DoDone} THEN "done"
    ELSE "invalid"

\* The switch on state without its default case: a token it does not know
\* is polled like "1".
DoCasePollUnknown(state) ==
    IF state = DoNew THEN "swap"
    ELSE IF state = DoDone THEN "done"
    ELSE "sleep"

\* The switch on state with "2" taken for work in progress: the caller
\* sleeps and reads again.
DoCasePollDone(state) ==
    IF state = DoNew THEN "swap"
    ELSE IF state \in {DoDoing, DoDone} THEN "sleep"
    ELSE "invalid"

\* lockDoAction, the switch on state: "" tries the swap, "1" sleeps, "2" is
\* work completed, anything else is the invalid state.
DoCase(state) ==
    IF state = DoNew THEN "swap"
    ELSE IF state = DoDoing THEN "sleep"
    ELSE IF state = DoDone THEN "done"
    ELSE "invalid"

\* lockDoAction after cli.Get returned: an error exits 1; otherwise the
\* switch: CompareAndSwap(key, "", "1"), the sleep, printing done, or the
\* invalid-state exit.
lockDoSwitch(p) ==
    /\ cmd[p].name = "do"
    /\ pc[p] = "await_get"
    /\ Responded(p)
    /\ LET r == GetResult(conn[p])
           case == DoCase(r.value)
       IN
         IF r.err
         THEN /\ Exit(p, 1, "", "Error performing get")
              /\ conn' = [conn EXCEPT ![p] = NoConn]
         ELSE IF case = "swap"
         THEN /\ Goto(p, "await_cas")
              /\ conn' = [conn EXCEPT ![p] =
                            Request(MethodPatch, CasQuery(cmd[p].key, DoNew, DoDoing))]
         ELSE IF case = "sleep"
         THEN /\ Goto(p, "sleep")
              /\ conn' = [conn EXCEPT ![p] = NoConn]
         ELSE IF case = "done"
         THEN /\ Exit(p, 0, "done", "")
              /\ conn' = [conn EXCEPT ![p] = NoConn]
         ELSE /\ Exit(p, 1, "", "Lock in invalid state for do-once")
              /\ conn' = [conn EXCEPT ![p] = NoConn]
    /\ UNCHANGED <<locks, mu, cmd, ret, build, started, sock, srv>>

\* lockDoAction after its CompareAndSwap without the check of done: it
\* prints do whenever the call made no error.
lockDoCasResultNoCheck(p) ==
    /\ cmd[p].name = "do"
    /\ pc[p] = "await_cas"
    /\ Responded(p)
    /\ conn' = [conn EXCEPT ![p] = NoConn]
    /\ IF CompareAndSwapResult(conn[p]).err
       THEN Exit(p, 1, "", "Error performing compare-and-swap")
       ELSE Exit(p, 0, "do", "")
    /\ UNCHANGED <<locks, mu, cmd, ret, build, started, sock, srv>>

\* lockDoAction after its CompareAndSwap: an error exits 1; done prints do
\* and returns nil; otherwise round the loop, without sleeping.
lockDoCasResult(p) ==
    /\ cmd[p].name = "do"
    /\ pc[p] = "await_cas"
    /\ Responded(p)
    /\ conn' = [conn EXCEPT ![p] = NoConn]
    /\ LET r == CompareAndSwapResult(conn[p]) IN
         IF r.err THEN Exit(p, 1, "", "Error performing compare-and-swap")
         ELSE IF r.done THEN Exit(p, 0, "do", "")
         ELSE Goto(p, "call")
    /\ UNCHANGED <<locks, mu, cmd, ret, build, started, sock, srv>>

\* lockDoneAction: cli.CompareAndSwap(key, "doing", "done") in
\* clicommand/lock_done.go, cli.CompareAndSwap(key, "1", "2") in the other
\* source of the function.
lockDoneCall(p) ==
    /\ cmd[p].name = "done"
    /\ pc[p] = "call"
    /\ conn' = [conn EXCEPT ![p] =
                  Request(MethodPatch, CasQuery(cmd[p].key, DoneOld(build), DoneNew(build)))]
    /\ Goto(p, "await")
    /\ UNCHANGED <<locks, mu, cmd, ret, build, started, sock, srv>>

\* lockDoneAction: an error exits 1; !done is the invalid state, exit 1;
\* otherwise return nil.
lockDoneResult(p) ==
    /\ cmd[p].name = "done"
    /\ pc[p] = "await"
    /\ Responded(p)
    /\ conn' = [conn EXCEPT ![p] = NoConn]
    /\ LET r == CompareAndSwapResult(conn[p]) IN
         IF r.err THEN Exit(p, 1, "", "Error performing compare-and-swap")
         ELSE IF ~r.done THEN Exit(p, 1, "", "Lock in invalid state to mark complete")
         ELSE Exit(p, 0, "", "")
    /\ UNCHANGED <<locks, mu, cmd, ret, build, started, sock, srv>>

\* ------------------------------------------------------------ initial state

\* Agent 1 has bound the socket and serves; no other agent has tried.
LeaderUp ==
    /\ sock = 1
    /\ srv = [a \in Agents |-> IF a = 1 THEN "serving" ELSE "none"]

\* NewLeaderServer has returned: an empty map, a free mutex; no process has
\* started anything.
Init ==
    /\ locks = <<>>
    /\ mu = 0
    /\ conn = [p \in Procs |-> NoConn]
    /\ cmd = [p \in Procs |-> NoCmd]
    /\ pc = [p \in Procs |-> "idle"]
    /\ ret = [p \in Procs |-> NoRet]
    /\ exit = [p \in Procs |-> -1]
    /\ stdout = [p \in Procs |-> ""]
    /\ stderr = [p \in Procs |-> ""]
    /\ build \in Builds
    /\ started = [p \in Procs |-> 0]
    /\ LeaderUp

\* The handler goroutines of the PATCH requests.
ServeCas(p) ==
    \/ casLock(p)
    \/ casCompare(p)
    \/ casStore(p)
    \/ casReturn(p)

\* The handler goroutines of the GET requests.
ServeLoad(p) ==
    \/ loadLock(p)
    \/ loadReturn(p)

\* ------------------------------------------------------ the whole program

\* The key arguments of the subcommands: one lock, and the empty string,
\* which the server rejects (leader_socket.go:84).
CmdKeys == {"llama", ""}

\* Any process runs any lock subcommand, one after another, for ever.
Next ==
    \E p \in Procs :
         \/ \E name \in {"acquire", "release", "do", "done"}, key \in CmdKeys :
              Start(p, name, key) /\ UNCHANGED started
         \/ lockAcquireCall(p)
         \/ lockAcquireResult(p)
         \/ lockReleaseCall(p)
         \/ lockReleaseResult(p)
         \/ lockDoGet(p)
         \/ lockDoSwitch(p)
         \/ lockDoCasResult(p)
         \/ lockDoneCall(p)
         \/ lockDoneResult(p)
         \/ ServeHTTPError(p)
         \/ ServeLoad(p)
         \/ ServeCas(p)

Spec == Init /\ [][Next]_vars

\* ------------------------------------------- the CompareAndSwap race

\* The stores a running server can hold: any tokens on any of the keys
\* (each is the result of earlier successful swaps).
Stores == UNION {[D -> RaceTokens] : D \in SUBSET Keys}

InitCAS ==
    /\ locks \in Stores
    /\ mu = 0
    /\ conn = [p \in Procs |-> NoConn]
    /\ cmd = [p \in Procs |-> NoCmd]
    /\ pc = [p \in Procs |-> "idle"]
    /\ ret = [p \in Procs |-> NoRet]
    /\ exit = [p \in Procs |-> -1]
    /\ stdout = [p \in Procs |-> ""]
    /\ stderr = [p \in Procs |-> ""]
    /\ build \in {"lock_done.go"}   \* no subcommand runs in the race
    /\ started = [p \in Procs |-> 0]
    /\ LeaderUp

Swappers == {p \in Procs : cmd[p].name = "CompareAndSwap"}

\* The callers of the race share the key and the old value; each brings a
\* new value of its own, different from old.
RaceCall(p, key, old, new) ==
    /\ new # old
    /\ \A q \in Swappers : cmd[q].key = key /\ cmd[q].old = old
    /\ CompareAndSwapCall(p, key, old, new)

\* Each process makes one call on its own connection: a CompareAndSwap of
\* the race, or a Get; nothing else writes the store.
NextCAS ==
    \E p \in Procs :
         \/ \E key \in Keys, old \in RaceTokens, new \in RaceTokens :
              RaceCall(p, key, old, new)
         \/ \E key \in Keys : GetCall(p, key)
         \/ ClientReturn(p)
         \/ ServeLoad(p)
         \/ ServeCas(p)

SpecCAS == InitCAS /\ [][NextCAS]_vars

Returned(p) == pc[p] = "returned"

\* The calls of the race that returned (true, nil).
Winners == {p \in Swappers : Returned(p) /\ ret[p].done}

\* C1: among the concurrent CompareAndSwap(key, old, new) calls that share
\* old (new # old), at most one returns true; and once all of them have
\* returned, exactly one has and the key holds its new value, unless the
\* key did not hold old, in which case none has and the key still differs
\* from old.
C1_AtMostOneSwap ==
    /\ Cardinality(Winners) <= 1
    /\ \A p \in Winners : ~ret[p].err
    /\ (Swappers # {} /\ \A p \in Swappers : Returned(p)) =>
          \/ \E w \in Winners : MapGet(locks, cmd[w].key) = cmd[w].new
          \/ /\ Winners = {}
             /\ \A p \in Swappers : MapGet(locks, cmd[p].key) # cmd[p].old

\* Witness of C1: two calls raced for the same old value, both have
\* returned, one won and one lost.
C1_Witness ==
    \E p, q \in Swappers :
        /\ p # q
        /\ Returned(p) /\ Returned(q)
        /\ ret[p].done /\ ~ret[q].done /\ ~ret[q].err

\* C10: a CompareAndSwap whose comparison finds the stored value of key
\* ("" when unset) different from old writes nothing: the handler goes to
\* its return with the whole store as it was, answers 304 Not Modified, and
\* the client call returns (false, nil).
C10_NoOpLaw ==
    [][\A p \in Procs :
         LET c == conn[p]
             stepped == conn'[p].stage # c.stage
         IN  /\ ( /\ c.stage = "cas_locked"
                  /\ MapGet(locks, FormValue(c.q, "key")) # FormValue(c.q, "old")
                  /\ stepped )
                => (conn'[p].stage = "cas_differ" /\ locks' = locks)
             /\ (c.stage = "cas_differ" /\ stepped)
                => /\ conn'[p].stage = "responded"
                   /\ conn'[p].status = StatusNotModified
                   /\ locks' = locks
             /\ (c.stage = "responded" /\ c.status = StatusNotModified /\ stepped)
                => /\ ret'[p] = [value |-> "", done |-> FALSE, err |-> FALSE]
                   /\ pc'[p] = "returned"
                   /\ locks' = locks
      ]_vars

\* Witness of C10: a call on a store holding both keys returned (false, nil)
\* and the key still holds a value other than old.
C10_Witness ==
    \E p \in Swappers :
        /\ Returned(p) /\ ~ret[p].done /\ ~ret[p].err
        /\ DOMAIN locks = Keys
        /\ locks[cmd[p].key] # cmd[p].old

\* ------------------------------------------------- the exclusive lock

Exited(p) == pc[p] = "exited"

\* The documented use of the lock (lock_acquire.go, Examples): lock acquire,
\* the critical section, lock release; release is called only by the
\* process whose acquire returned, once.
NextLock ==
    \E p \in Procs :
         \/ \E key \in Keys :
              /\ pc[p] = "idle" \/ (Exited(p) /\ cmd[p].name = "release")
              /\ Start(p, "acquire", key) /\ UNCHANGED started
         \/ /\ Exited(p) /\ cmd[p].name = "acquire" /\ exit[p] = 0
            /\ Start(p, "release", cmd[p].key) /\ UNCHANGED started
         \/ lockAcquireCall(p)
         \/ lockAcquireResult(p)
         \/ lockReleaseCall(p)
         \/ lockReleaseResult(p)
         \/ ServeCas(p)

SpecLock == Init /\ [][NextLock]_vars

\* p's acquire of key has returned and its release has not yet taken the
\* lock back: it has not been called, or its swap is not yet stored.
InCriticalSection(p, key) ==
    /\ cmd[p].key = key
    /\ \/ cmd[p].name = "acquire" /\ Exited(p) /\ exit[p] = 0
       \/ /\ cmd[p].name = "release"
          /\ pc[p] = "call" \/ conn[p].stage \in {"sent", "cas_locked", "cas_equal"}

Holders(key) == {p \in Procs : InCriticalSection(p, key)}

\* C2: on every key, at most one process is between the return of its
\* acquire and its release.
C2_MutualExclusion == \A key \in Keys : Cardinality(Holders(key)) <= 1

\* Witness of C2: one process is in the critical section of a key while
\* another, having lost the swap on that key, sleeps in its acquire loop.
C2_Witness ==
    \E p, q \in Procs :
        /\ p # q
        /\ cmd[p].name = "acquire" /\ Exited(p) /\ exit[p] = 0
        /\ cmd[q].name = "acquire" /\ pc[q] = "sleep"
        /\ cmd[q].key = cmd[p].key

\* ------------------------------------------ the acquire / release round trip

\* The script of the round trip: acquire, release, acquire again.
RoundTrip == <<"acquire", "release", "acquire">>

\* The keys start UNLOCKED: never written, or written with the empty token.
InitRoundTrip ==
    /\ locks \in UNION {[D -> {""}] : D \in SUBSET Keys}
    /\ mu = 0
    /\ conn = [p \in Procs |-> NoConn]
    /\ cmd = [p \in Procs |-> NoCmd]
    /\ pc = [p \in Procs |-> "idle"]
    /\ ret = [p \in Procs |-> NoRet]
    /\ exit = [p \in Procs |-> -1]
    /\ stdout = [p \in Procs |-> ""]
    /\ stderr = [p \in Procs |-> ""]
    /\ build \in Builds
    /\ started = [p \in Procs |-> 0]
    /\ LeaderUp

\* p starts the next subcommand of its script: the first on a key no other
\* process acts on, the later ones on the same key, each after the one
\* before it has exited.
StartRoundTrip(p, key) ==
    /\ started[p] < Len(RoundTrip)
    /\ IF started[p] = 0
       THEN \A q \in Procs \ {p} : started[q] > 0 => cmd[q].key # key
       ELSE Exited(p) /\ key = cmd[p].key
    /\ Start(p, RoundTrip[started[p] + 1], key)
    /\ started' = [started EXCEPT ![p] = @ + 1]

NextRoundTrip ==
    \E p \in Procs :
         \/ \E key \in Keys : StartRoundTrip(p, key)
         \/ lockAcquireCall(p)
         \/ lockAcquireResult(p)
         \/ lockReleaseCall(p)
         \/ lockReleaseResult(p)
         \/ ServeCas(p)

SpecRoundTrip == InitRoundTrip /\ [][NextRoundTrip]_vars

\* C7: with no other process on the key, acquire then release leaves the
\* key at the empty token, and the acquire after it returns on its first
\* CompareAndSwap: the script never reaches the sleep of the retry loop and
\* each of its subcommands exits 0.
C7_RoundTrip ==
    \A p \in Procs :
        /\ pc[p] # "sleep"
        /\ Exited(p) => exit[p] = 0
        /\ (Exited(p) /\ started[p] = 2) =>
              (cmd[p].key \in DOMAIN locks /\ locks[cmd[p].key] = "")
        /\ (Exited(p) /\ started[p] = 3) => MapGet(locks, cmd[p].key) = AcquireNew

\* Witness of C7: the second acquire of the script has returned nil and
\* holds the lock.
C7_Witness ==
    \E p \in Procs :
        /\ started[p] = 3 /\ cmd[p].name = "acquire"
        /\ Exited(p) /\ exit[p] = 0
        /\ MapGet(locks, cmd[p].key) = AcquireNew

\* C8: a release whose comparison finds the key in any state other than
\* "1" (never written, empty, or another token) writes nothing, is answered
\* 304, and the subcommand exits 1 with the invalid-state diagnostic,
\* without another request.
C8_ReleaseNotLocked ==
    [][\A p \in Procs :
         LET c == conn[p]
             stepped == conn'[p].stage # c.stage
         IN  cmd[p].name = "release" =>
             /\ ( /\ c.stage = "cas_locked"
                  /\ MapGet(locks, cmd[p].key) # ReleaseOld
                  /\ stepped )
                => (conn'[p].stage = "cas_differ" /\ locks' = locks)
             /\ (c.stage = "cas_differ" /\ stepped)
                => /\ conn'[p].stage = "responded"
                   /\ conn'[p].status = StatusNotModified
                   /\ locks' = locks
             /\ (c.stage = "responded" /\ c.status = StatusNotModified /\ stepped)
                => /\ pc'[p] = "exited"
                   /\ exit'[p] = 1
                   /\ stderr'[p] = "Lock in invalid state to release"
                   /\ conn'[p].stage = "none"
                   /\ locks' = locks
      ]_vars

\* Witness of C8: a release of a key that was never written has exited 1
\* with the invalid-state diagnostic, and the key is still unwritten.
C8_Witness ==
    \E p \in Procs :
        /\ cmd[p].name = "release" /\ Exited(p)
        /\ exit[p] = 1 /\ stderr[p] = "Lock in invalid state to release"
        /\ cmd[p].key # "" /\ cmd[p].key \notin DOMAIN locks

\* C9 as claimed: done succeeds exactly when the key is in the DOING state
\* (the token lock do writes when it elects the worker), moving it to the
\* DONE token lock do recognises; in every other state it writes nothing
\* and exits 1 with the invalid-state diagnostic, without another request.
C9_DoneIffDoing ==
    [][\A p \in Procs :
         LET c == conn[p]
             stepped == conn'[p].stage # c.stage
         IN  cmd[p].name = "done" =>
             /\ (c.stage = "cas_locked" /\ stepped)
                => IF MapGet(locks, cmd[p].key) = DoDoing
                   THEN conn'[p].stage = "cas_equal"
                   ELSE conn'[p].stage = "cas_differ" /\ locks' = locks
             /\ (c.stage = "cas_equal" /\ stepped)
                => MapGet(locks', cmd[p].key) = DoDone
             /\ (c.stage = "cas_differ" /\ stepped)
                => conn'[p].status = StatusNotModified /\ locks' = locks
             /\ (c.stage = "responded" /\ stepped)
                => /\ pc'[p] = "exited"
                   /\ conn'[p].stage = "none"
                   /\ locks' = locks
                   /\ IF c.status = StatusNoContent
                      THEN exit'[p] = 0
                      ELSE exit'[p] = 1
      ]_vars

\* ------------------------------------------------- the do-once barrier

\* The documented use of do-once (lock_do.go, Examples): each process calls
\* lock do once; the one that reads back 'do' does the work and then calls
\* lock done on the same key.
NextDoOnce ==
    \E p \in Procs :
         \/ \E key \in Keys :
              pc[p] = "idle" /\ Start(p, "do", key) /\ UNCHANGED started
         \/ /\ Exited(p) /\ cmd[p].name = "do" /\ stdout[p] = "do"
            /\ Start(p, "done", cmd[p].key) /\ UNCHANGED started
         \/ lockDoGet(p)
         \/ lockDoSwitch(p)
         \/ lockDoCasResult(p)
         \/ lockDoneCall(p)
         \/ lockDoneResult(p)
         \/ ServeLoad(p)
         \/ ServeCas(p)

SpecDoOnce == Init /\ [][NextDoOnce]_vars

\* The processes whose lock do on key printed 'do': those whose do has
\* exited with it, and those that went on to lock done.
Elected(key) ==
    {p \in Procs :
        /\ cmd[p].key = key
        /\ \/ cmd[p].name = "done"
           \/ cmd[p].name = "do" /\ Exited(p) /\ stdout[p] = "do"}

\* C3: on every key at most one lock do prints 'do'; every lock do that
\* completes exits 0 having printed 'do' or 'done', and once one has
\* completed some call has printed 'do'; so every completed call but the
\* elected one printed 'done'.
C3_ExactlyOneWorker ==
    \A key \in Keys :
        /\ Cardinality(Elected(key)) <= 1
        /\ \A p \in Procs :
             (cmd[p].key = key /\ cmd[p].name = "do" /\ Exited(p)) =>
                /\ exit[p] = 0
                /\ stdout[p] \in {"do", "done"}
                /\ Elected(key) # {}

\* Witness of C3: one process was elected and went on to lock done, and
\* another lock do on the same key completed with 'done'.
C3_Witness ==
    \E p, q \in Procs :
        /\ p # q /\ cmd[p].key = cmd[q].key
        /\ cmd[p].name = "done"
        /\ cmd[q].name = "do" /\ Exited(q) /\ stdout[q] = "done"

\* The swap of a lock done on key has been performed by the server.
DoneSucceeded(key) ==
    \E q \in Procs :
        /\ cmd[q].name = "done" /\ cmd[q].key = key
        /\ \/ Exited(q) /\ exit[q] = 0
           \/ conn[q].stage = "cas_stored"
           \/ conn[q].stage = "responded" /\ conn[q].status = StatusNoContent

\* C4: a lock do that has printed 'done' did so after a lock done on its key
\* succeeded, and the key is in the DONE state, not NEW or DOING.
C4_DoneOnlyAfterDone ==
    \A p \in Procs :
        (cmd[p].name = "do" /\ Exited(p) /\ stdout[p] = "done") =>
            /\ DoneSucceeded(cmd[p].key)
            /\ MapGet(locks, cmd[p].key) = DoDone
            /\ MapGet(locks, cmd[p].key) \notin {DoNew, DoDoing}

\* Witness of C4: a waiter that slept in lock do has printed 'done' after
\* the worker's lock done returned nil.
C4_Witness ==
    \E p, q \in Procs :
        /\ cmd[p].name = "do" /\ Exited(p) /\ stdout[p] = "done"
        /\ cmd[q].name = "done" /\ cmd[q].key = cmd[p].key
        /\ Exited(q) /\ exit[q] = 0

\* C6 as claimed: lock done called by the worker right after its lock do
\* printed 'do' succeeds, the two subcommands using one token scheme.
C6_WorkerDoneSucceeds ==
    \A p \in Procs : (cmd[p].name = "done" /\ Exited(p)) => exit[p] = 0

\* The steps of process p's subcommand, once started.
RunDoOnce(p) ==
    \/ lockDoGet(p)
    \/ lockDoSwitch(p)
    \/ lockDoCasResult(p)
    \/ lockDoneCall(p)
    \/ lockDoneResult(p)

\* The scheduling the liveness of the barrier assumes: every started
\* process keeps running, the server stays up and runs every handler, and
\* sync.Mutex hands the lock to every waiter in turn.
FairDoOnce ==
    \A p \in Procs :
        /\ WF_vars(RunDoOnce(p))
        /\ WF_vars(loadReturn(p))
        /\ WF_vars(casCompare(p) \/ casStore(p) \/ casReturn(p))
        /\ SF_vars(loadLock(p))
        /\ SF_vars(casLock(p))

SpecDoOnceFair == Init /\ [][NextDoOnce]_vars /\ FairDoOnce

\* C5 as claimed: once the worker has called lock done, every lock do
\* waiting on the same key eventually prints 'done'.
C5_WaiterEventuallyDone ==
    \A p, q \in Procs :
        ( /\ cmd[p].name = "done"
          /\ cmd[q].name = "do" /\ cmd[q].key = cmd[p].key /\ ~Exited(q) )
        ~> (Exited(q) /\ stdout[q] = "done")

\* ------------------------------------- one caller per key, call after call

\* The keys the callers share out among themselves, one each.
KeySeq == <<"llama", "build-lock">>

\* The key a process calls the client on: its own, or the empty string,
\* which the server rejects whoever sends it.
CallKeys(p) == (IF p <= Len(KeySeq) THEN {KeySeq[p]} ELSE {}) \cup {""}

\* The tokens the callers compare with, and those they write.
ClientOlds == {"", "1"}
ClientNews == {"", "1", "2", "3"}

\* The caller has used the result of its call and goes on to the next one.
ClientAgain(p) ==
    /\ pc[p] = "returned"
    /\ pc' = [pc EXCEPT ![p] = "idle"]
    /\ cmd' = [cmd EXCEPT ![p] = NoCmd]
    /\ ret' = [ret EXCEPT ![p] = NoRet]
    /\ UNCHANGED <<locks, mu, conn, exit, stdout, stderr, build, started, sock, srv>>

\* The server has just started: its store is empty.
InitClient == InitCAS /\ locks = <<>>

\* Every process makes Get and CompareAndSwap calls one after another, for
\* ever, and no other process calls on its key.
NextClient ==
    \E p \in Procs :
         \/ \E key \in CallKeys(p) \ {""}, old \in ClientOlds, new \in ClientNews :
              CompareAndSwapCall(p, key, old, new)
         \/ \E key \in CallKeys(p) : GetCall(p, key)
         \/ ClientReturn(p)
         \/ ClientAgain(p)
         \/ ServeHTTPError(p)
         \/ ServeLoad(p)
         \/ ServeCas(p)

SpecClient == InitClient /\ [][NextClient]_vars

\* The call of process p has returned to its caller.
ReturnedFrom(p, name) == cmd[p].name = name /\ pc[p] = "returned"

\* C11: whatever the key, old and new, a cas that finds the current token
\* (the empty string for an unset key) equal to old writes new on that key
\* and on no other, reports true, is answered 204 and makes CompareAndSwap
\* return (true, nil); the caller's following Get returns the token of the
\* store, which after its successful call is new and after its failed call
\* is still a token other than old.
C11_CasSuccess ==
    /\ [][\A p \in Procs :
            LET c == conn[p]
                key == FormValue(c.q, "key")
                stepped == conn'[p].stage # c.stage
            IN  /\ ( /\ c.stage = "cas_locked"
                     /\ MapGet(locks, key) = FormValue(c.q, "old")
                     /\ stepped )
                   => conn'[p].stage = "cas_equal"
                /\ (c.stage = "cas_equal" /\ stepped)
                   => /\ conn'[p].stage = "cas_stored"
                      /\ MapGet(locks', key) = FormValue(c.q, "new")
                      /\ key \in DOMAIN locks'
                      /\ \A k \in Keys \ {key} :
                           /\ MapGet(locks', k) = MapGet(locks, k)
                           /\ k \in DOMAIN locks' <=> k \in DOMAIN locks
                /\ (c.stage = "cas_stored" /\ stepped)
                   => /\ conn'[p].stage = "responded"
                      /\ conn'[p].status = StatusNoContent
                /\ ( /\ c.stage = "responded" /\ c.status = StatusNoContent
                     /\ stepped )
                   => /\ ret'[p] = [value |-> "", done |-> TRUE, err |-> FALSE]
                      /\ pc'[p] = "returned"
                /\ (cmd[p].name = "Get" /\ pc[p] = "await" /\ pc'[p] = "returned"
                      /\ cmd[p].key # "")
                   => ret'[p] = [value |-> MapGet(locks, cmd[p].key),
                                 done |-> FALSE, err |-> FALSE]
        ]_vars
    /\ [](\A p \in Procs :
            ReturnedFrom(p, "CompareAndSwap") /\ ~ret[p].err
            => IF ret[p].done
               THEN MapGet(locks, cmd[p].key) = cmd[p].new
               ELSE MapGet(locks, cmd[p].key) # cmd[p].old)

\* In the scenario: CompareAndSwap("build-lock", "1", "2") has returned true,
\* and the Get that follows it finds "2".
C11_Witness ==
    \E p \in Procs :
         /\ ReturnedFrom(p, "CompareAndSwap")
         /\ cmd[p].key = "build-lock" /\ cmd[p].old = "1" /\ cmd[p].new = "2"
         /\ ret[p] = [value |-> "", done |-> TRUE, err |-> FALSE]
         /\ MapGet(locks, "build-lock") = "2"

\* C12 as stated: Get on a key that nothing has written, the empty string
\* among the keys, returns ("", nil).
C12_GetUnsetAnyKey ==
    \A p \in Procs :
         (ReturnedFrom(p, "Get") /\ cmd[p].key \notin DOMAIN locks)
         => ret[p] = [value |-> "", done |-> FALSE, err |-> FALSE]

\* C12: Get on a non-empty key that no successful CompareAndSwap has
\* written returns ("", nil), and no step of a Get changes the store: the
\* key is as unset after the call as before.  (Get("") is answered 400 and
\* returns an error.)
C12_GetUnset ==
    /\ [](\A p \in Procs :
            ( /\ ReturnedFrom(p, "Get")
              /\ cmd[p].key # ""
              /\ cmd[p].key \notin DOMAIN locks )
            => ret[p] = [value |-> "", done |-> FALSE, err |-> FALSE])
    /\ [][\A p \in Procs :
            (cmd'[p].name = "Get" /\ (conn'[p] # conn[p] \/ pc'[p] # pc[p]))
            => locks' = locks
        ]_vars

\* Get("llama") has returned ("", nil) and the store has no entry for it.
C12_Witness ==
    \E p \in Procs :
         /\ ReturnedFrom(p, "Get")
         /\ cmd[p].key = "llama"
         /\ "llama" \notin DOMAIN locks
         /\ ret[p] = [value |-> "", done |-> FALSE, err |-> FALSE]

\* ------------------------------------------- a key used by do and done only

\* Any process runs lock do or lock done on any key, one after another, for
\* ever; nothing else writes the store.
NextBarrier ==
    \E p \in Procs :
         \/ \E name \in {"do", "done"}, key \in Keys :
              Start(p, name, key) /\ UNCHANGED started
         \/ lockDoGet(p)
         \/ lockDoSwitch(p)
         \/ lockDoCasResult(p)
         \/ lockDoneCall(p)
         \/ lockDoneResult(p)
         \/ ServeLoad(p)
         \/ ServeCas(p)

SpecBarrier == Init /\ [][NextBarrier]_vars

\* C13: on keys that only lock do and lock done operate on, the token is
\* always one of NEW (""), DOING ("1"), DONE ("2"), and every change of it is
\* NEW -> DOING or DOING -> DONE: it never goes back, never skips DOING, and
\* DONE is never left.
C13_BarrierTransitions ==
    /\ [](\A k \in Keys : MapGet(locks, k) \in {DoNew, DoDoing, DoDone})
    /\ [][\A k \in Keys :
            MapGet(locks', k) # MapGet(locks, k)
            => <<MapGet(locks, k), MapGet(locks', k)>>
                 \in {<<DoNew, DoDoing>>, <<DoDoing, DoDone>>}
        ]_vars

\* A key is DONE while one process runs lock do on it and another has run
\* lock done on it again, in vain.
C13_Witness ==
    \E k \in Keys, p, q \in Procs :
         /\ MapGet(locks, k) = DoDone
         /\ cmd[p].name = "do" /\ cmd[p].key = k /\ pc[p] = "await_get"
         /\ cmd[q].name = "done" /\ cmd[q].key = k /\ Exited(q) /\ exit[q] = 1

\* ------------------------------------------- lock do on a store it finds

\* The tokens lock do may find on a key: its own "1" and "2", and "doing",
\* which clicommand/lock_done.go compares with and lock do does not know. A
\* key without an entry reads as "".
FoundTokens == {"1", "2", "doing"}

\* The server holds what earlier callers left on the keys.
InitFound ==
    /\ locks \in UNION {[D -> FoundTokens] : D \in SUBSET Keys}
    /\ mu = 0
    /\ conn = [p \in Procs |-> NoConn]
    /\ cmd = [p \in Procs |-> NoCmd]
    /\ pc = [p \in Procs |-> "idle"]
    /\ ret = [p \in Procs |-> NoRet]
    /\ exit = [p \in Procs |-> -1]
    /\ stdout = [p \in Procs |-> ""]
    /\ stderr = [p \in Procs |-> ""]
    /\ build \in {"lock_done.go"}   \* lock done does not run
    /\ started = [p \in Procs |-> 0]
    /\ LeaderUp

\* Any process runs lock do on any key, one after another, for ever.
NextDo ==
    \E p \in Procs :
         \/ \E key \in Keys : Start(p, "do", key) /\ UNCHANGED started
         \/ lockDoGet(p)
         \/ lockDoSwitch(p)
         \/ lockDoCasResult(p)
         \/ ServeLoad(p)
         \/ ServeCas(p)

SpecDo == InitFound /\ [][NextDo]_vars

InvalidState == "Lock in invalid state for do-once"

\* C14: a lock do whose Get returns a token other than "", "1", "2" exits
\* at once with code 1 and the invalid-state diagnostic on the error
\* writer, prints nothing on standard output, sends no further request and
\* writes nothing: the key still holds the token it read.
C14_InvalidStateFatal ==
    /\ [][\A p \in Procs :
            ( /\ cmd[p].name = "do" /\ pc[p] = "await_get"
              /\ conn[p].stage = "responded" /\ conn[p].status = StatusOK
              /\ conn[p].body \notin {DoNew, DoDoing, DoDone}
              /\ pc'[p] # pc[p] )
            => /\ pc'[p] = "exited"
               /\ exit'[p] = 1
               /\ stderr'[p] = InvalidState
               /\ stdout'[p] = ""
               /\ conn'[p] = NoConn
               /\ locks' = locks
        ]_vars
    /\ [](\A p \in Procs :
            (cmd[p].name = "do" /\ stderr[p] = InvalidState)
            => /\ Exited(p) /\ exit[p] = 1 /\ stdout[p] = ""
               /\ MapGet(locks, cmd[p].key) \notin {DoNew, DoDoing, DoDone})

\* A lock do has died on a key holding "doing".
C14_Witness ==
    \E p \in Procs :
         /\ cmd[p].name = "do" /\ Exited(p) /\ exit[p] = 1
         /\ stderr[p] = InvalidState
         /\ MapGet(locks, cmd[p].key) = "doing"

\* C15: a lock do on a key that is already at "2" never sleeps and never
\* sends a CompareAndSwap: its one Get is answered "2", it prints done and
\* exits 0, and none of its steps changes the store.
C15_DoneAtFirstRead ==
    /\ [](\A p \in Procs :
            (cmd[p].name = "do" /\ MapGet(locks, cmd[p].key) = DoDone)
            => /\ pc[p] \in {"call", "await_get", "exited"}
               /\ conn[p].method # MethodPatch
               /\ Exited(p) => /\ exit[p] = 0
                               /\ stdout[p] = "done"
                               /\ stderr[p] = "")
    /\ [][\A p \in Procs :
            ( /\ cmd'[p].name = "do" /\ MapGet(locks, cmd'[p].key) = DoDone
              /\ (pc'[p] # pc[p] \/ conn'[p] # conn[p]) )
            => /\ locks' = locks
               /\ pc[p] = "await_get" /\ conn[p].stage = "responded"
                  => pc'[p] = "exited"
        ]_vars

\* A lock do has printed done on a key at "2".
C15_Witness ==
    \E p \in Procs :
         /\ cmd[p].name = "do" /\ MapGet(locks, cmd[p].key) = DoDone
         /\ Exited(p) /\ exit[p] = 0 /\ stdout[p] = "done"

\* ------------------------------------------------ any request on the socket

Params == {"key", "old", "new"}

\* The query strings of the PATCH requests: any of the three parameters
\* present or missing (key=llama, old=1, new=1 when present), and the query
\* of CompareAndSwap("", "", "1").
WireQueries ==
    {[n \in D |-> IF n = "key" THEN "llama" ELSE "1"] : D \in SUBSET Params}
      \cup {CasQuery("", "", "1")}

\* The requests a process can write to the socket: a PATCH of the lock API
\* with any of the queries, a PATCH of another path, a POST.
WireRequests ==
    {RawRequest(MethodPatch, LockPath, q) : q \in WireQueries}
      \cup {RawRequest(MethodPatch, "/", NoQuery),
            RawRequest("POST", LockPath, NoQuery)}

\* No agent listens on the socket.
LeaderDown ==
    /\ sock = 0
    /\ srv = [a \in Agents |-> "none"]

\* A server holding nothing or "1" on the key, or no server at all.
InitWire ==
    /\ locks \in UNION {[D -> {"1"}] : D \in SUBSET {"llama"}}
    /\ mu = 0
    /\ conn = [p \in Procs |-> NoConn]
    /\ cmd = [p \in Procs |-> NoCmd]
    /\ pc = [p \in Procs |-> "idle"]
    /\ ret = [p \in Procs |-> NoRet]
    /\ exit = [p \in Procs |-> -1]
    /\ stdout = [p \in Procs |-> ""]
    /\ stderr = [p \in Procs |-> ""]
    /\ build \in {"lock_done.go"}   \* no subcommand runs
    /\ started = [p \in Procs |-> 0]
    /\ LeaderUp \/ LeaderDown

\* c.cli.Do(req) with a request of any shape.
WireCall(p, req) ==
    /\ pc[p] = "idle"
    /\ cmd' = [cmd EXCEPT ![p] =
                 [name |-> "CompareAndSwap", key |-> FormValue(req.q, "key"),
                  old |-> FormValue(req.q, "old"), new |-> FormValue(req.q, "new")]]
    /\ conn' = [conn EXCEPT ![p] = req]
    /\ pc' = [pc EXCEPT ![p] = "await"]
    /\ UNCHANGED <<locks, mu, ret, exit, stdout, stderr, build, started, sock, srv>>

\* c.cli.Do returns an error: nothing listens on the socket.
TransportError(p) ==
    /\ pc[p] = "await"
    /\ conn[p].stage = "sent"
    /\ ~Listening
    /\ ret' = [ret EXCEPT ![p] = [value |-> "", done |-> FALSE, err |-> TRUE]]
    /\ conn' = [conn EXCEPT ![p] = NoConn]
    /\ pc' = [pc EXCEPT ![p] = "returned"]
    /\ UNCHANGED <<locks, mu, cmd, exit, stdout, stderr, build, started, sock, srv>>

\* CompareAndSwap's switch on resp.StatusCode, and its return.
WireReturn(p) ==
    /\ pc[p] = "await"
    /\ conn[p].stage = "responded"
    /\ ret' = [ret EXCEPT ![p] = CompareAndSwapResult(conn[p])]
    /\ pc' = [pc EXCEPT ![p] = "returned"]
    /\ UNCHANGED <<locks, mu, conn, cmd, exit, stdout, stderr, build, started, sock, srv>>

\* Each process sends one request and reads the answer as CompareAndSwap does.
NextWire ==
    \E p \in Procs :
         \/ \E req \in WireRequests : WireCall(p, req)
         \/ TransportError(p)
         \/ WireReturn(p)
         \/ ServeHTTPError(p)
         \/ ServeCas(p)

SpecWire == InitWire /\ [][NextWire]_vars

\* The answer to a PATCH of the lock API.
CasAnswered(p) ==
    /\ conn[p].stage = "responded"
    /\ conn[p].method = MethodPatch
    /\ conn[p].path = LockPath

\* C16 as stated: a CompareAndSwap request with any of key, old, new missing
\* is answered 400.
C16_AnyMissingParamIs400 ==
    \A p \in Procs :
         (CasAnswered(p) /\ DOMAIN conn[p].q # Params)
         => conn[p].status = StatusBadRequest

\* C16: a CompareAndSwap request is answered 204, 304 or 400, and 400
\* exactly when its key parameter is missing or empty (a missing old or new
\* is read as the empty string); 204 is answered after the write and only
\* then, 304 after a comparison that differed, and the request answered 400
\* never reaches cas: the store is unchanged.
C16_CasOutcomes ==
    /\ [](\A p \in Procs :
            CasAnswered(p)
            => /\ conn[p].status \in {StatusNoContent, StatusNotModified, StatusBadRequest}
               /\ conn[p].status = StatusBadRequest <=> FormValue(conn[p].q, "key") = "")
    /\ [][\A p \in Procs :
            (CasAnswered(p)' /\ ~CasAnswered(p))
            => /\ conn'[p].status = StatusBadRequest
                  => (conn[p].stage = "sent" /\ locks' = locks)
               /\ conn'[p].status = StatusNoContent <=> conn[p].stage = "cas_stored"
               /\ conn'[p].status = StatusNotModified <=> conn[p].stage = "cas_differ"
        ]_vars

\* Two requests answered: one without its key, 400; one without its old,
\* which swapped the unset key.
C16_Witness ==
    \E p, q \in Procs :
         /\ CasAnswered(p) /\ "key" \notin DOMAIN conn[p].q
         /\ conn[p].status = StatusBadRequest
         /\ CasAnswered(q) /\ DOMAIN conn[q].q = {"key", "new"}
         /\ conn[q].status = StatusNoContent
         /\ MapGet(locks, "llama") = "1"

\* C17: CompareAndSwap returns (true, nil) on 204, (false, nil) on 304, and
\* (false, error) on every other status (400, 404, 405) and when the
\* request could not be sent; it never returns true with an error, and the
\* 204 it turns into true is only ever written after cas stored the new
\* token.
C17_ClientMapping ==
    /\ [](\A p \in Procs :
            pc[p] = "returned"
            => /\ ret[p].done => ~ret[p].err
               /\ conn[p].stage = "responded"
                  => /\ conn[p].status = StatusNoContent
                        => ret[p] = [value |-> "", done |-> TRUE, err |-> FALSE]
                     /\ conn[p].status = StatusNotModified
                        => ret[p] = [value |-> "", done |-> FALSE, err |-> FALSE]
                     /\ conn[p].status \notin {StatusNoContent, StatusNotModified}
                        => ret[p] = [value |-> "", done |-> FALSE, err |-> TRUE]
               /\ conn[p].stage # "responded"
                  => ret[p] = [value |-> "", done |-> FALSE, err |-> TRUE]
               /\ ret[p].done
                  => /\ conn[p].stage = "responded"
                     /\ conn[p].status = StatusNoContent
                     /\ FormValue(conn[p].q, "key") \in DOMAIN locks)
    /\ [][\A p \in Procs :
            (conn'[p].status = StatusNoContent /\ conn[p].status # StatusNoContent)
            => conn[p].stage = "cas_stored"
        ]_vars

\* One call has returned (true, nil) from a 204, another (false, error)
\* from a 405.
C17_Witness ==
    \E p, q \in Procs :
         /\ pc[p] = "returned" /\ conn[p].status = StatusNoContent
         /\ ret[p] = [value |-> "", done |-> TRUE, err |-> FALSE]
         /\ pc[q] = "returned" /\ conn[q].status = StatusMethodNotAllowed
         /\ ret[q] = [value |-> "", done |-> FALSE, err |-> TRUE]

\* ------------------------------------------------ the race for the socket

\* NewLeaderServer going on to serve although net.Listen returned an error.
NewLeaderServerIgnoreErr(a) ==
    /\ srv[a] = "none"
    /\ srv' = [srv EXCEPT ![a] = "serving"]
    /\ sock' = IF sock = 0 THEN a ELSE sock
    /\ locks' = <<>>
    /\ mu' = 0
    /\ UNCHANGED <<conn, cmd, pc, ret, exit, stdout, stderr, build, started>>

\* NewLeaderServer: net.Listen binds the socket path when no listener holds
\* it, and the agent serves a new, empty store; otherwise net.Listen fails
\* and the call returns (nil, err).
NewLeaderServer(a) ==
    /\ srv[a] = "none"
    /\ IF sock = 0
       THEN /\ sock' = a
            /\ srv' = [srv EXCEPT ![a] = "serving"]
            /\ locks' = <<>>
            /\ mu' = 0
       ELSE /\ srv' = [srv EXCEPT ![a] = "error"]
            /\ UNCHANGED <<sock, locks, mu>>
    /\ UNCHANGED <<conn, cmd, pc, ret, exit, stdout, stderr, build, started>>

\* Shutdown: the listener is closed, which frees the socket path, and the
\* call returns when the handlers in progress have finished.
Shutdown(a) ==
    /\ srv[a] = "serving"
    /\ \A p \in Procs : conn[p].stage \in {"none", "sent", "responded"}
    /\ sock' = 0
    /\ srv' = [srv EXCEPT ![a] = "stopped"]
    /\ UNCHANGED <<locks, mu, conn, cmd, pc, ret, exit, stdout, stderr, build, started>>

\* No agent has called NewLeaderServer yet.
InitLeader ==
    /\ locks = <<>>
    /\ mu = 0
    /\ conn = [p \in Procs |-> NoConn]
    /\ cmd = [p \in Procs |-> NoCmd]
    /\ pc = [p \in Procs |-> "idle"]
    /\ ret = [p \in Procs |-> NoRet]
    /\ exit = [p \in Procs |-> -1]
    /\ stdout = [p \in Procs |-> ""]
    /\ stderr = [p \in Procs |-> ""]
    /\ build \in {"lock_done.go"}   \* no subcommand runs
    /\ started = [p \in Procs |-> 0]
    /\ LeaderDown

\* The agents call NewLeaderServer, once each, and the leader may shut
\* down; meanwhile the clients call CompareAndSwap("llama", "", "1") and
\* Get("llama") on the socket, again and again.
NextLeader ==
    \/ \E a \in Agents :
         \/ NewLeaderServer(a)
         \/ Shutdown(a)
    \/ \E p \in Procs :
         \/ CompareAndSwapCall(p, "llama", "", "1")
         \/ GetCall(p, "llama")
         \/ TransportError(p)
         \/ ClientReturn(p)
         \/ ClientAgain(p)
         \/ ServeLoad(p)
         \/ ServeCas(p)

SpecLeader == InitLeader /\ [][NextLeader]_vars

Serving == {a \in Agents : srv[a] = "serving"}

ParTokens == {"", "1"}

\* Every process calls Get and CompareAndSwap (setting or clearing the
\* token) on any key, one call after another, for ever, all on the same keys.
NextPar ==
    \E p \in Procs :
         \/ \E key \in Keys, old \in ParTokens :
              \E new \in ParTokens \ {old} : CompareAndSwapCall(p, key, old, new)
         \/ \E key \in Keys : GetCall(p, key)
         \/ ClientReturn(p)
         \/ ClientAgain(p)
         \/ ServeLoad(p)
         \/ ServeCas(p)

SpecPar == InitClient /\ [][NextPar]_vars

\* C19: every call takes effect in one step between its request and its
\* response.  A load's step is its return: it answers the token the store
\* holds at that step.  A failing cas's step is its comparison: the token
\* differs from old at that step.  A successful cas's step is its write: the
\* token still equals old when new is written, on that key alone.  No other
\* step changes the store, each answer is handed to its caller as it was
\* decided at that step, and the handlers between lock and unlock are never
\* two.  The calls of a parallel run so give the results of the same calls
\* made one at a time on one map, in the order of these steps.
C19_Linearizable ==
    /\ [][/\ \A p \in Procs :
               LET c == conn[p]
                   key == FormValue(c.q, "key")
                   stepped == conn'[p].stage # c.stage
               IN  /\ (c.stage = "load_locked" /\ stepped)
                      => /\ conn'[p].stage = "responded"
                         /\ conn'[p].status = StatusOK
                         /\ conn'[p].body = MapGet(locks, key)
                   /\ (c.stage = "cas_locked" /\ stepped)
                      => conn'[p].stage =
                           IF MapGet(locks, key) = FormValue(c.q, "old")
                           THEN "cas_equal" ELSE "cas_differ"
                   /\ (c.stage = "cas_equal" /\ stepped)
                      => /\ conn'[p].stage = "cas_stored"
                         /\ MapGet(locks, key) = FormValue(c.q, "old")
                         /\ MapGet(locks', key) = FormValue(c.q, "new")
                         /\ \A k \in Keys \ {key} : MapGet(locks', k) = MapGet(locks, k)
                   /\ (c.stage = "cas_differ" /\ stepped)
                      => /\ conn'[p].stage = "responded"
                         /\ conn'[p].status = StatusNotModified
                         /\ MapGet(locks, key) # FormValue(c.q, "old")
                   /\ (c.stage = "cas_stored" /\ stepped)
                      => /\ conn'[p].stage = "responded"
                         /\ conn'[p].status = StatusNoContent
                   /\ (c.stage = "responded" /\ stepped)
                      => ret'[p] =
                           IF c.method = MethodGet
                           THEN [value |-> c.body, done |-> FALSE, err |-> FALSE]
                           ELSE [value |-> "", done |-> c.status = StatusNoContent,
                                 err |-> FALSE]
          /\ locks' # locks
             => \E p \in Procs :
                  conn[p].stage = "cas_equal" /\ conn'[p].stage = "cas_stored"
        ]_vars
    /\ [](Cardinality({p \in Procs :
                         conn[p].stage \in {"load_locked", "cas_locked", "cas_equal",
                                            "cas_differ", "cas_stored"}}) <= 1)

\* Two calls on one key in flight together: CompareAndSwap(key, "", "1") has
\* written and not yet answered while a Get waits for the mutex.
C19_Witness ==
    \E p, q \in Procs :
         /\ conn[p].stage = "cas_stored"
         /\ FormValue(conn[p].q, "key") = "llama"
         /\ conn[q].stage = "sent" /\ conn[q].method = MethodGet
         /\ FormValue(conn[q].q, "key") = "llama"

\* ---------------------------------------------------- the wait of acquire

\* C20: a lock acquire ends only on the answer to its own CompareAndSwap:
\* with code 0 on 204, which the handler of that request writes after
\* storing "1" on a key that read "", and with code 1 and the
\* compare-and-swap error on any answer other than 204 and 304.  While the
\* key holds any token but "" its handler writes nothing and answers 304,
\* and on 304 the process goes to its sleep without exiting, from where its
\* only step is the same CompareAndSwap(key, "", "1") again: no count, no
\* deadline and no invalid-state exit ends the loop.
C20_AcquireWaits ==
    [][\A p \in Procs :
         LET c == conn[p]
             key == FormValue(c.q, "key")
             moved == pc'[p] # pc[p]
         IN  cmd[p].name = "acquire" /\ cmd'[p] = cmd[p]
             => /\ (moved /\ pc'[p] = "exited")
                   => /\ pc[p] = "await" /\ c.stage = "responded"
                      /\ c.status # StatusNotModified
                      /\ exit'[p] = IF c.status = StatusNoContent THEN 0 ELSE 1
                      /\ stderr'[p] = IF c.status = StatusNoContent THEN ""
                                      ELSE "Error performing compare-and-swap"
                /\ (pc[p] = "await" /\ c.stage = "responded" /\ moved
                      /\ c.status = StatusNotModified)
                   => /\ pc'[p] = "sleep"
                      /\ exit'[p] = -1
                      /\ locks' = locks
                /\ (pc[p] = "sleep" /\ moved)
                   => /\ pc'[p] = "await"
                      /\ conn'[p] = Request(MethodPatch,
                                            CasQuery(cmd[p].key, AcquireOld, AcquireNew))
                /\ (c.stage = "cas_locked" /\ MapGet(locks, key) # AcquireOld
                      /\ conn'[p].stage # c.stage)
                   => (conn'[p].stage = "cas_differ" /\ locks' = locks)
                /\ (c.stage = "cas_differ" /\ conn'[p].stage # c.stage)
                   => /\ conn'[p].status = StatusNotModified
                      /\ locks' = locks
                /\ (conn'[p].status = StatusNoContent /\ c.status # StatusNoContent)
                   => /\ c.stage = "cas_stored"
                      /\ MapGet(locks, key) = AcquireNew
       ]_vars

\* A lock acquire sleeps between two attempts on a key that a lock done
\* left at "2".
C20_Witness ==
    \E p \in Procs :
         /\ cmd[p].name = "acquire" /\ pc[p] = "sleep"
         /\ MapGet(locks, cmd[p].key) = "2"

\* ------------------------------------------- subcommands on different keys

\* The key a process runs its subcommands on: the keys are dealt out to the
\* processes in turn.
KeyFor(p) == KeySeq[((p - 1) % Len(KeySeq)) + 1]

\* The server holds nothing or "1" on each key, left by earlier callers.
InitKeys ==
    /\ locks \in UNION {[D -> {"1"}] : D \in SUBSET Keys}
    /\ mu = 0
    /\ conn = [p \in Procs |-> NoConn]
    /\ cmd = [p \in Procs |-> NoCmd]
    /\ pc = [p \in Procs |-> "idle"]
    /\ ret = [p \in Procs |-> NoRet]
    /\ exit = [p \in Procs |-> -1]
    /\ stdout = [p \in Procs |-> ""]
    /\ stderr = [p \in Procs |-> ""]
    /\ build \in Builds
    /\ started = [p \in Procs |-> 0]
    /\ LeaderUp

\* Every process runs any of the four subcommands on its key, one after
\* another, for ever.
NextKeys ==
    \E p \in Procs :
         \/ \E name \in {"acquire", "release", "do", "done"} :
              Start(p, name, KeyFor(p)) /\ UNCHANGED started
         \/ lockAcquireCall(p)
         \/ lockAcquireResult(p)
         \/ lockReleaseCall(p)
         \/ lockReleaseResult(p)
         \/ lockDoGet(p)
         \/ lockDoSwitch(p)
         \/ lockDoCasResult(p)
         \/ lockDoneCall(p)
         \/ lockDoneResult(p)
         \/ ServeLoad(p)
         \/ ServeCas(p)

SpecKeys == InitKeys /\ [][NextKeys]_vars

\* The entry of key k is the same before and after the step.
SameEntry(k) ==
    /\ MapGet(locks', k) = MapGet(locks, k)
    /\ k \in DOMAIN locks' <=> k \in DOMAIN locks

\* C21: no step of a Get and no step of a subcommand outside its handlers
\* changes the store; a step of a CompareAndSwap on a key leaves the entry of
\* every other key as it was; the entry of a key changes only in the write
\* of a cas on that key; and what a handler answers depends on the token of
\* its own key alone: the comparison of a cas goes by s.locks[key], a load
\* returns s.locks[key], whatever the other keys hold.
C21_KeyIndependence ==
    [][/\ \A p \in Procs :
            LET c == conn[p]
                key == FormValue(c.q, "key")
                stepped == conn'[p].stage # c.stage
            IN  /\ (c.method = MethodGet /\ conn'[p] # c) => locks' = locks
                /\ pc'[p] # pc[p] => locks' = locks
                /\ (c.method = MethodPatch /\ stepped)
                   => \A k \in Keys \ {key} : SameEntry(k)
                /\ (c.stage = "cas_locked" /\ stepped)
                   => conn'[p].stage =
                        IF MapGet(locks, key) = FormValue(c.q, "old")
                        THEN "cas_equal" ELSE "cas_differ"
                /\ (c.stage = "load_locked" /\ stepped)
                   => conn'[p].body = MapGet(locks, key)
       /\ \A k \in Keys :
            ~SameEntry(k)
            => \E p \in Procs :
                 /\ cmd[p].key = k
                 /\ FormValue(conn[p].q, "key") = k
                 /\ conn[p].stage = "cas_equal" /\ conn'[p].stage = "cas_stored"
      ]_vars

\* One process sleeps in lock acquire on a key that is held while another's
\* lock acquire on the other key has returned.
C21_Witness ==
    \E p, q \in Procs :
         /\ cmd[p].name = "acquire" /\ pc[p] = "sleep"
         /\ MapGet(locks, cmd[p].key) = "1"
         /\ cmd[q].name = "acquire" /\ Exited(q) /\ exit[q] = 0
         /\ cmd[q].key # cmd[p].key

\* ------------------------------------------- release without an owner

\* C22: a request carries the key and the two tokens and nothing of its
\* sender, and a lock release by any process that finds the key at acquire's
\* token "1" swaps it for "", is answered 204 and exits 0, whoever's lock
\* acquire wrote the "1" and whether or not its critical section is over.
C22_ReleaseAnyone ==
    /\ [](\A p \in Procs : DOMAIN conn[p].q \subseteq Params)
    /\ [][\A p \in Procs :
            LET c == conn[p]
                stepped == conn'[p].stage # c.stage
            IN  cmd[p].name = "release" =>
                /\ ( /\ c.stage = "cas_locked"
                     /\ MapGet(locks, cmd[p].key) = AcquireNew
                     /\ stepped )
                   => conn'[p].stage = "cas_equal"
                /\ (c.stage = "cas_equal" /\ stepped)
                   => /\ conn'[p].stage = "cas_stored"
                      /\ MapGet(locks', cmd[p].key) = AcquireOld
                /\ (c.stage = "cas_stored" /\ stepped)
                   => /\ conn'[p].stage = "responded"
                      /\ conn'[p].status = StatusNoContent
                /\ (c.stage = "responded" /\ c.status = StatusNoContent /\ stepped)
                   => /\ pc'[p] = "exited"
                      /\ exit'[p] = 0
                      /\ stderr'[p] = ""
        ]_vars

\* Two processes are in the critical section of one key at once: the lock
\* acquire of each has returned and neither has released.
C22_Witness ==
    \E p, q \in Procs :
         /\ p # q
         /\ cmd[p].name = "acquire" /\ Exited(p) /\ exit[p] = 0
         /\ cmd[q].name = "acquire" /\ Exited(q) /\ exit[q] = 0
         /\ cmd[p].key = "llama" /\ cmd[q].key = "llama"
         /\ MapGet(locks, "llama") = AcquireNew

\* ------------------------------------------- the lock and the barrier on one key

\* C23: the token lock acquire writes is the token lock do writes and polls
\* on, and the tokens of lock release are DOING and NEW.  So on a key that
\* any subcommand may be run on, a lock do that reads "1" goes to its sleep
\* whoever wrote it, no lock do ever takes the invalid-state exit, a lock
\* release that finds "1" puts the key back to NEW, and a lock do whose swap
\* from NEW is answered 204 prints do.
C23_SharedToken ==
    /\ [](/\ AcquireNew = DoDoing
          /\ ReleaseOld = DoDoing
          /\ ReleaseNew = DoNew
          /\ \A p \in Procs : stderr[p] # InvalidState)
    /\ [][\A p \in Procs :
            LET c == conn[p]
                moved == pc'[p] # pc[p]
            IN  /\ ( /\ cmd[p].name = "do" /\ pc[p] = "await_get"
                     /\ c.stage = "responded" /\ c.status = StatusOK
                     /\ c.body = AcquireNew /\ moved )
                   => (pc'[p] = "sleep" /\ exit'[p] = -1)
                /\ ( /\ cmd[p].name = "release" /\ c.stage = "cas_equal"
                     /\ conn'[p].stage # c.stage )
                   => MapGet(locks', cmd[p].key) = DoNew
                /\ ( /\ cmd[p].name = "do" /\ pc[p] = "await_cas"
                     /\ c.stage = "responded" /\ c.status = StatusNoContent
                     /\ moved )
                   => /\ pc'[p] = "exited"
                      /\ exit'[p] = 0
                      /\ stdout'[p] = "do"
        ]_vars

\* Two lock do calls on one key have both printed do: a lock release put
\* the key back to NEW while the first worker was in DOING.
C23_Witness ==
    \E p, q \in Procs :
         /\ p # q
         /\ cmd[p].name = "do" /\ Exited(p) /\ stdout[p] = "do"
         /\ cmd[q].name = "do" /\ Exited(q) /\ stdout[q] = "do"
         /\ cmd[p].key = "llama" /\ cmd[q].key = "llama"
         /\ MapGet(locks, "llama") = DoDoing

\* A lock do polls on a key that a lock acquire holds.
DoPollsOnLock ==
    \E p, q \in Procs :
         /\ cmd[p].name = "acquire" /\ Exited(p) /\ exit[p] = 0
         /\ cmd[q].name = "do" /\ pc[q] = "sleep"
         /\ cmd[p].key = "llama" /\ cmd[q].key = "llama"
         /\ MapGet(locks, "llama") = AcquireNew

====
